---- MODULE Spec2Model ----
(***************************************************************************)
(* devops-dash: the Docker client (package utils), the gin controllers     *)
(* that call it (package controllers) and main, as a state machine.        *)
(*                                                                         *)
(* The daemon is the environment: a map from container id to container,    *)
(* changed only by the API calls the program issues.  Every daemon call    *)
(* can also fail for a reason of the transport (parameter `up`).           *)
(* gin serves every request on its own goroutine: Workers are the          *)
(* requests in flight.                                                     *)
(***************************************************************************)
EXTENDS Integers, Sequences, FiniteSets, TLC

\* ------------------------------------------------------------------ bounds
NumWorkers == 2
NumInit == 1
MaxCreate == 1

Workers == 1..NumWorkers
InitIDs == 1..NumInit
MaxID == NumInit + MaxCreate
\* what c.Param("containerID") can be: 0 is the empty string
ParamIDs == 0..MaxID

\* ------------------------------------------------------- the daemon's data
\* lifecycle states of a container (types.Container.State)
States == {"created", "running", "paused", "exited"}

\* the daemon lists a container without All when its process is running
IsRunning(state) == state \in {"running", "paused", "restarting"}

\* Docker reports names with a leading "/"
NameOf(i) == <<"/", ToString(i)>>

\* a container as the daemon created it at startup
InitialContainer(i, state) ==
    [Name |-> NameOf(i), State |-> state, Image |-> i, HostConfig |-> i, Networks |-> {i}]

\* strings.TrimPrefix(s, "/")
TrimPrefix(s) == IF Len(s) > 0 /\ Head(s) = "/" THEN Tail(s) ELSE s

RECURSIVE SeqDesc(_)
\* the daemon lists the newest container first
SeqDesc(S) ==
    IF S = {} THEN <<>>
    ELSE LET m == CHOOSE x \in S : \A y \in S : y <= x
         IN  <<m>> \o SeqDesc(S \ {m})

\* cli.ContainerList(ctx, options): All = FALSE keeps the running ones
DaemonList(cs, all) ==
    SeqDesc({i \in DOMAIN cs : all \/ IsRunning(cs[i].State)})

\* cli.ContainerInspect(ctx, containerID)
DaemonInspect(cs, id) ==
    IF id \notin DOMAIN cs
    THEN [res |-> "notfound",
          info |-> [Name |-> <<>>, State |-> "", Image |-> 0, HostConfig |-> 0, Networks |-> {}]]
    ELSE [res |-> "ok",
          info |-> [Name |-> cs[id].Name, State |-> cs[id].State, Image |-> cs[id].Image,
                    HostConfig |-> cs[id].HostConfig, Networks |-> cs[id].Networks]]

\* cli.ContainerStart: 204 started, 304 already running, 404, 409 paused
DaemonStart(cs, id) ==
    IF id \notin DOMAIN cs THEN [res |-> "notfound", cs |-> cs]
    ELSE IF cs[id].State = "paused" THEN [res |-> "conflict", cs |-> cs]
    ELSE [res |-> "ok", cs |-> [cs EXCEPT ![id].State = "running"]]

\* cli.ContainerStop: 204 stopped, 304 already stopped, 404
DaemonStop(cs, id) ==
    IF id \notin DOMAIN cs THEN [res |-> "notfound", cs |-> cs]
    ELSE IF IsRunning(cs[id].State) THEN [res |-> "ok", cs |-> [cs EXCEPT ![id].State = "exited"]]
    ELSE [res |-> "ok", cs |-> cs]

\* cli.ContainerRemove: with Force a running container is killed and removed
DaemonRemove(cs, id, force) ==
    IF id \notin DOMAIN cs THEN [res |-> "notfound", cs |-> cs]
    ELSE IF IsRunning(cs[id].State) /\ ~force THEN [res |-> "conflict", cs |-> cs]
    ELSE [res |-> "ok", cs |-> [i \in DOMAIN cs \ {id} |-> cs[i]]]

\* cli.ContainerCreate: a runtime with unique names answers 409 while another
\* container holds the name; the new container is in state created
DaemonCreate(cs, unique, info, name, newID) ==
    IF unique /\ \E i \in DOMAIN cs : cs[i].Name = name
    THEN [res |-> "conflict", cs |-> cs, ID |-> 0]
    ELSE [res |-> "ok", ID |-> newID,
          cs |-> [i \in DOMAIN cs \cup {newID} |->
                    IF i = newID
                    THEN [Name |-> name, State |-> "created", Image |-> info.Image,
                          HostConfig |-> info.HostConfig, Networks |-> info.Networks]
                    ELSE cs[i]]]

\* ------------------------------------------------------------ time.Duration
\* a 64-bit integer as two limbs, value = hi * 10^6 + lo
Big(hi, lo) == [hi |-> hi, lo |-> lo]
BigMul(d, n) ==
    LET lo == d.lo * n
    IN  [hi |-> d.hi * n + lo \div (1000 * 1000), lo |-> lo % (1000 * 1000)]
\* time.Second, in nanoseconds: 10^9
Second == Big(1000, 0)
\* int(time.Second * 10): the value StopContainerByID hands to StopOptions.Timeout
StopTimeout == BigMul(Second, 10)
NoTimeout == Big(0, 0)

\* --------------------------------------------------------------- the state
VARIABLES
    pcMain,       \* "connect" before utils.ConnectToDocker, "serve" in router.Run
    cli,          \* utils.cli: "nil" or "client"
    connectErr,   \* what ConnectToDocker returned: "" (nil) or the failing step
    uniqueNames,  \* whether the runtime enforces unique container names
    containers,   \* the daemon: id -> container
    nextID,       \* the id the daemon gives the next container it creates
    replaced,     \* history: the ids for which UpdateContainer has returned Ok
    req           \* per worker: the request it serves, its locals and its response

vars == <<pcMain, cli, connectErr, uniqueNames, replaced, containers, nextID, req>>

NoInfo == [Name |-> <<>>, State |-> "", Image |-> 0, HostConfig |-> 0, Networks |-> {}]
NoStats ==
    [ContainerID |-> 0, CPU |-> [special |-> "", hundredths |-> 0], Memory |-> <<0, 0>>,
     NetworkRx |-> 0, NetworkTx |-> 0]

\* the zero types.StatsJSON; also what the daemon reports for a container that
\* is not running
ZeroSnapshot ==
    [TotalUsage |-> 0, SystemUsage |-> 0, Usage |-> 0, Limit |-> 0, Networks |-> <<>>]

\* a worker with no request
Idle ==
    [op |-> "none", containerID |-> 0, pc |-> "idle", containerInfo |-> NoInfo,
     respID |-> 0, status |-> 0, error |-> "", containerList |-> <<>>,
     rawStats |-> ZeroSnapshot, stats |-> NoStats, calls |-> <<>>]

\* one request to the daemon, as issued
Call(name, target, timeout, flag, res) ==
    [call |-> name, target |-> target, timeout |-> timeout, flag |-> flag, res |-> res]

Init ==
    /\ pcMain = "connect"
    /\ cli = "nil"
    /\ connectErr = "unset"
    /\ uniqueNames \in BOOLEAN
    /\ \E st \in [InitIDs -> States] :
            containers = [i \in InitIDs |-> InitialContainer(i, st[i])]
    /\ nextID = NumInit + 1
    /\ replaced = {}
    /\ req = [w \in Workers |-> Idle]

\* ------------------------------------------------------------- main, Connect
ConnectOutcomes == {"keypair", "cacert", "client", "ping", "ok"}

\* utils.ConnectToDocker: the handle it leaves in cli, and its return value
ConnectToDocker(outcome) ==
    CASE outcome = "keypair" -> [cli |-> "nil", err |-> "failed to load client certificate and key"]
      [] outcome = "cacert"  -> [cli |-> "nil", err |-> "failed to read CA certificate"]
      [] outcome = "client"  -> [cli |-> "nil", err |-> "failed to create Docker client"]
      [] outcome = "ping"    -> [cli |-> "client", err |-> "failed to ping Docker daemon"]
      [] outcome = "ok"      -> [cli |-> "client", err |-> ""]

\* main: connects, prints the outcome and runs the router whatever it was
Main ==
    /\ pcMain = "connect"
    /\ \E outcome \in ConnectOutcomes :
         LET r == ConnectToDocker(outcome)
         IN  /\ cli' = r.cli
             /\ connectErr' = r.err
    /\ pcMain' = "serve"
    /\ UNCHANGED <<uniqueNames, replaced, containers, nextID, req>>

\* no handler is at its return.  A return touches nothing but the worker's own
\* locals, so it is scheduled first: every interleaving of the daemon calls
\* is still there.
Quiet == \A v \in Workers : req[v].pc # "done"

\* a worker is free to take a request once the router runs.  The goroutines are
\* interchangeable: a request goes to the first worker that has none.
Free(w) ==
    /\ pcMain = "serve"
    /\ req[w].pc = "idle"
    /\ \A v \in Workers : v < w => req[v].pc # "idle"
    /\ Quiet

\* the request as the handler receives it
Begin(op, containerID) == [Idle EXCEPT !.op = op, !.containerID = containerID]

\* c.JSON(status, ...) and return
Reply(r, status, error) == [r EXCEPT !.pc = "done", !.status = status, !.error = error]

\* a method of a nil *client.Client panics; gin's Recovery answers 500
Panic(r) == Reply(r, 500, "panic")

\* c.Param("containerID") == "": 400 before anything else
EmptyParam(w, op) ==
    /\ Free(w)
    /\ req' = [req EXCEPT ![w] = Reply(Begin(op, 0), 400, "containerID is empty")]
    /\ UNCHANGED <<pcMain, cli, connectErr, uniqueNames, replaced, containers, nextID>>

\* ------------------------------------------------------------- utils: calls
\* utils.ListContainers: types.ContainerListOptions{} leaves All at false
ListAll == FALSE
ListContainers(cs, up) ==
    IF ~up THEN [err |-> "failed to list containers", containers |-> <<>>,
                 call |-> Call("ContainerList", 0, NoTimeout, ListAll, "fault")]
    ELSE [err |-> "", containers |-> DaemonList(cs, ListAll),
          call |-> Call("ContainerList", 0, NoTimeout, ListAll, "ok")]

\* utils.StartContainerByID
StartContainerByID(cs, containerID, up) ==
    LET r == IF up THEN DaemonStart(cs, containerID) ELSE [res |-> "fault", cs |-> cs]
    IN  [err |-> IF r.res = "ok" THEN "" ELSE "failed to start container",
         cs |-> r.cs,
         call |-> Call("ContainerStart", containerID, NoTimeout, FALSE, r.res)]

\* utils.StopContainerByID
StopContainerByID(cs, containerID, up) ==
    LET timeout == StopTimeout
        r == IF up THEN DaemonStop(cs, containerID) ELSE [res |-> "fault", cs |-> cs]
    IN  [err |-> IF r.res = "ok" THEN "" ELSE "failed to stop container",
         cs |-> r.cs,
         call |-> Call("ContainerStop", containerID, timeout, FALSE, r.res)]

\* utils.DeleteContainerByID: Force is always set
\* DeleteContainerByID treating a container that is already gone as removed
DeleteContainerByIDIgnoresMissing(cs, containerID, up) ==
    LET r == IF up THEN DaemonRemove(cs, containerID, TRUE) ELSE [res |-> "fault", cs |-> cs]
    IN  [err |-> IF r.res \in {"ok", "notfound"} THEN "" ELSE "failed to remove container",
         cs |-> r.cs,
         call |-> Call("ContainerRemove", containerID, NoTimeout, TRUE, r.res)]

DeleteContainerByID(cs, containerID, up) ==
    LET r == IF up THEN DaemonRemove(cs, containerID, TRUE) ELSE [res |-> "fault", cs |-> cs]
    IN  [err |-> IF r.res = "ok" THEN "" ELSE "failed to remove container",
         cs |-> r.cs,
         call |-> Call("ContainerRemove", containerID, NoTimeout, TRUE, r.res)]

\* ------------------------------------------------------------------- stats
\* a map lookup m[k] of Go: the zero value when k is absent
MapIndex(m, k) == IF k \in DOMAIN m THEN m[k] ELSE [RxBytes |-> 0, TxBytes |-> 0]

\* fmt.Sprintf("%.2f", num/den) as hundredths, rounded to nearest, ties to even
Fixed2(num, den) ==
    LET q == (num * 100) \div den
        r == (num * 100) % den
    IN  IF 2 * r > den THEN q + 1
        ELSE IF 2 * r = den THEN q + (q % 2)
        ELSE q

\* float64(total) / float64(system) * 100 printed with "%.2f%%"
FormatCPU(total, system) ==
    IF system = 0
    THEN [special |-> IF total = 0 THEN "NaN" ELSE "+Inf", hundredths |-> 0]
    ELSE [special |-> "", hundredths |-> Fixed2(total * 100, system)]

\* float64(bytes) / (1024 * 1024) printed with "%.2f MB"
FormatMB(bytes) == Fixed2(bytes, 1024 * 1024)

\* snapshots of a running container: bridge network with traffic, bridge
\* network idle, no eth0 (host network: another interface only)
Snapshots ==
    { [TotalUsage |-> 1, SystemUsage |-> 8, Usage |-> 131072, Limit |-> 2097152,
       Networks |-> ("eth0" :> [RxBytes |-> 1572864, TxBytes |-> 5243])],
      [TotalUsage |-> 1, SystemUsage |-> 8, Usage |-> 131072, Limit |-> 2097152,
       Networks |-> ("eth0" :> [RxBytes |-> 0, TxBytes |-> 0])],
      [TotalUsage |-> 1, SystemUsage |-> 8, Usage |-> 131072, Limit |-> 2097152,
       Networks |-> ("eth1" :> [RxBytes |-> 1572864, TxBytes |-> 5243])] }

\* utils.GetContainerStatsByID: one non-streaming snapshot, decoded
GetContainerStatsByID(cs, containerID, up, decodes, snap) ==
    LET res == IF ~up THEN "fault"
               ELSE IF containerID \notin DOMAIN cs THEN "notfound" ELSE "ok"
    IN  [err |-> IF res # "ok" THEN "failed to get stats for container"
                 ELSE IF ~decodes THEN "failed to decode stats for container"
                 ELSE "",
         stats |-> IF res = "ok" /\ decodes /\ IsRunning(cs[containerID].State)
                   THEN snap ELSE ZeroSnapshot,
         call |-> Call("ContainerStats", containerID, NoTimeout, FALSE, res)]

\* --------------------------------------------------------------- controllers
\* controllers.GetContainers: one summary per container the daemon listed
Summary(cs, i) ==
    [ID |-> i, Name |-> TrimPrefix(cs[i].Name), Image |-> cs[i].Image, State |-> cs[i].State]

GetContainers(w, up) ==
    /\ Free(w)
    /\ LET b == Begin("list", 0)
           r == ListContainers(containers, up)
           c == [b EXCEPT !.calls = <<r.call>>]
       IN  req' = [req EXCEPT ![w] =
                IF cli = "nil" THEN Panic(b)
                ELSE IF r.err # "" THEN Reply(c, 500, r.err)
                ELSE Reply([c EXCEPT !.containerList =
                                [k \in 1..Len(r.containers) |-> Summary(containers, r.containers[k])]],
                           200, "")]
    /\ UNCHANGED <<pcMain, cli, connectErr, uniqueNames, replaced, containers, nextID>>

\* controllers.GetStats
GetStats(w, containerID, up, decodes, snap) ==
    /\ Free(w)
    /\ containerID # 0
    /\ LET b == Begin("stats", containerID)
           r == GetContainerStatsByID(containers, containerID, up, decodes, snap)
           c == [b EXCEPT !.calls = <<r.call>>]
           stats == r.stats
       IN  req' = [req EXCEPT ![w] =
                IF cli = "nil" THEN Panic(b)
                ELSE IF r.err # "" THEN Reply(c, 500, r.err)
                ELSE Reply([c EXCEPT !.rawStats = stats, !.stats =
                                [ContainerID |-> containerID,
                                 CPU |-> FormatCPU(stats.TotalUsage, stats.SystemUsage),
                                 Memory |-> <<FormatMB(stats.Usage), FormatMB(stats.Limit)>>,
                                 NetworkRx |-> FormatMB(MapIndex(stats.Networks, "eth0").RxBytes),
                                 NetworkTx |-> FormatMB(MapIndex(stats.Networks, "eth0").TxBytes)]],
                           200, "")]
    /\ UNCHANGED <<pcMain, cli, connectErr, uniqueNames, replaced, containers, nextID>>

\* OneCall giving up the session when the daemon request fails: the
\* process-wide handle is cleared for a later reconnect
OneCallDropsHandle(w, op, containerID, r) ==
    /\ Free(w)
    /\ containerID # 0
    /\ LET b == Begin(op, containerID)
           c == [b EXCEPT !.calls = <<r.call>>]
       IN  /\ req' = [req EXCEPT ![w] =
                    IF cli = "nil" THEN Panic(b)
                    ELSE IF r.err # "" THEN Reply(c, 500, r.err)
                    ELSE Reply(c, 200, "")]
           /\ containers' = IF cli = "nil" THEN containers ELSE r.cs
           /\ cli' = IF cli # "nil" /\ r.err # "" THEN "nil" ELSE cli
    /\ UNCHANGED <<pcMain, connectErr, uniqueNames, replaced, nextID>>

\* the handlers of one call: StartContainer, StopContainer, DeleteContainer
OneCall(w, op, containerID, r) ==
    /\ Free(w)
    /\ containerID # 0
    /\ LET b == Begin(op, containerID)
           c == [b EXCEPT !.calls = <<r.call>>]
       IN  /\ req' = [req EXCEPT ![w] =
                    IF cli = "nil" THEN Panic(b)
                    ELSE IF r.err # "" THEN Reply(c, 500, r.err)
                    ELSE Reply(c, 200, "")]
           /\ containers' = IF cli = "nil" THEN containers ELSE r.cs
    /\ UNCHANGED <<pcMain, cli, connectErr, uniqueNames, replaced, nextID>>

\* controllers.StartContainer
StartContainer(w, containerID, up) ==
    OneCall(w, "start", containerID, StartContainerByID(containers, containerID, up))

\* controllers.StopContainer
StopContainer(w, containerID, up) ==
    OneCall(w, "stop", containerID, StopContainerByID(containers, containerID, up))

\* controllers.DeleteContainer
DeleteContainer(w, containerID, up) ==
    OneCall(w, "delete", containerID, DeleteContainerByID(containers, containerID, up))

\* ------------------------------------------- UpdateContainer, phase by phase
\* the worker is inside utils.UpdateContainerByID, about to run `phase`
InUpdate(w, phase) == req[w].op = "update" /\ req[w].pc = phase /\ Quiet

\* the model's supply of container ids is used up: the daemon creates no more
Exhausted == nextID > MaxID

\* one more request of the phase, appended to the calls of the request
Issued(r, call) == [r EXCEPT !.calls = Append(@, call)]

\* phase 1, Inspect: cli.ContainerInspect(ctx, containerID)
UpdateInspect(w, containerID, up) ==
    /\ Free(w)
    /\ containerID # 0
    /\ LET b == Begin("update", containerID)
           r == IF up THEN DaemonInspect(containers, containerID)
                ELSE [res |-> "fault", info |-> NoInfo]
           c == Issued(b, Call("ContainerInspect", containerID, NoTimeout, FALSE, r.res))
       IN  req' = [req EXCEPT ![w] =
                IF cli = "nil" THEN Panic(b)
                ELSE IF r.res # "ok" THEN Reply(c, 500, "failed to get container info")
                ELSE [c EXCEPT !.pc = "pull", !.containerInfo = r.info]]
    /\ UNCHANGED <<pcMain, cli, connectErr, uniqueNames, replaced, containers, nextID>>

\* UpdatePull stopping the original before the image is pulled
UpdatePullStopsOriginal(w, up) ==
    /\ InUpdate(w, "pull")
    /\ LET d == StopContainerByID(containers, req[w].containerID, TRUE)
           c == Issued(req[w], Call("ImagePull", req[w].containerInfo.Image, NoTimeout, FALSE,
                                    IF up THEN "ok" ELSE "fault"))
       IN  /\ req' = [req EXCEPT ![w] =
                    IF ~up THEN Reply(c, 500, "failed to pull image")
                    ELSE [c EXCEPT !.pc = "create"]]
           /\ containers' = d.cs
    /\ UNCHANGED <<pcMain, cli, connectErr, uniqueNames, replaced, nextID>>

\* UpdatePull trying the pull a second time when the first attempt fails
UpdatePullRetries(w, up) ==
    /\ InUpdate(w, "pull")
    /\ \E again \in BOOLEAN :
         LET first == Issued(req[w], Call("ImagePull", req[w].containerInfo.Image, NoTimeout,
                                          FALSE, IF up THEN "ok" ELSE "fault"))
             second == Issued(first, Call("ImagePull", req[w].containerInfo.Image, NoTimeout,
                                          FALSE, IF again THEN "ok" ELSE "fault"))
         IN  req' = [req EXCEPT ![w] =
                  IF up THEN [first EXCEPT !.pc = "create"]
                  ELSE IF again THEN [second EXCEPT !.pc = "create"]
                  ELSE Reply(second, 500, "failed to pull image")]
    /\ UNCHANGED <<pcMain, cli, connectErr, uniqueNames, replaced, containers, nextID>>

\* phase 2, Pull: cli.ImagePull(ctx, containerInfo.Config.Image, ...)
UpdatePull(w, up) ==
    /\ InUpdate(w, "pull")
    /\ LET c == Issued(req[w], Call("ImagePull", req[w].containerInfo.Image, NoTimeout, FALSE,
                                    IF up THEN "ok" ELSE "fault"))
       IN  req' = [req EXCEPT ![w] =
                IF ~up THEN Reply(c, 500, "failed to pull image")
                ELSE [c EXCEPT !.pc = "create"]]
    /\ UNCHANGED <<pcMain, cli, connectErr, uniqueNames, replaced, containers, nextID>>

\* UpdateCreate with the name freed first: the original is removed, then the
\* replacement is created
UpdateCreateAfterRemove(w, up) ==
    /\ InUpdate(w, "create")
    /\ \E upCreate \in BOOLEAN :
         /\ (Exhausted => ~upCreate)
         /\ LET info == req[w].containerInfo
                d == DeleteContainerByID(containers, req[w].containerID, up)
                r == IF upCreate THEN DaemonCreate(d.cs, uniqueNames, info, info.Name, nextID)
                     ELSE [res |-> "fault", cs |-> d.cs, ID |-> 0]
                c == Issued(Issued(req[w], d.call),
                            Call("ContainerCreate", info.Image, NoTimeout, FALSE, r.res))
            IN  /\ req' = [req EXCEPT ![w] =
                         IF r.res # "ok" THEN Reply(c, 500, "failed to create container from image")
                         ELSE [c EXCEPT !.pc = "start", !.respID = r.ID]]
                /\ containers' = r.cs
                /\ nextID' = IF r.res = "ok" THEN nextID + 1 ELSE nextID
    /\ UNCHANGED <<pcMain, cli, connectErr, uniqueNames, replaced>>

\* UpdateCreate passing no networking config: the endpoints of the original are
\* not handed to the replacement
UpdateCreateNoNetworks(w, up) ==
    /\ InUpdate(w, "create")
    /\ (Exhausted => ~up)
    /\ LET info == req[w].containerInfo
           r == IF up THEN DaemonCreate(containers, uniqueNames, [info EXCEPT !.Networks = {}],
                                        info.Name, nextID)
                ELSE [res |-> "fault", cs |-> containers, ID |-> 0]
           c == Issued(req[w], Call("ContainerCreate", info.Image, NoTimeout, FALSE, r.res))
       IN  /\ req' = [req EXCEPT ![w] =
                    IF r.res # "ok" THEN Reply(c, 500, "failed to create container from image")
                    ELSE [c EXCEPT !.pc = "start", !.respID = r.ID]]
           /\ containers' = r.cs
           /\ nextID' = IF r.res = "ok" THEN nextID + 1 ELSE nextID
    /\ UNCHANGED <<pcMain, cli, connectErr, uniqueNames, replaced>>

\* UpdateCreate reporting its failure with the message of the pull
UpdateCreatePullMessage(w, up) ==
    /\ InUpdate(w, "create")
    /\ (Exhausted => ~up)
    /\ LET info == req[w].containerInfo
           r == IF up THEN DaemonCreate(containers, uniqueNames, info, info.Name, nextID)
                ELSE [res |-> "fault", cs |-> containers, ID |-> 0]
           c == Issued(req[w], Call("ContainerCreate", info.Image, NoTimeout, FALSE, r.res))
       IN  /\ req' = [req EXCEPT ![w] =
                    IF r.res # "ok" THEN Reply(c, 500, "failed to pull image")
                    ELSE [c EXCEPT !.pc = "start", !.respID = r.ID]]
           /\ containers' = r.cs
           /\ nextID' = IF r.res = "ok" THEN nextID + 1 ELSE nextID
    /\ UNCHANGED <<pcMain, cli, connectErr, uniqueNames, replaced>>

\* phase 3, Create: cli.ContainerCreate(ctx, Config, HostConfig, networkConfig, nil, Name)
UpdateCreate(w, up) ==
    /\ InUpdate(w, "create")
    /\ (Exhausted => ~up)
    /\ LET info == req[w].containerInfo
           r == IF up THEN DaemonCreate(containers, uniqueNames, info, info.Name, nextID)
                ELSE [res |-> "fault", cs |-> containers, ID |-> 0]
           c == Issued(req[w], Call("ContainerCreate", info.Image, NoTimeout, FALSE, r.res))
       IN  /\ req' = [req EXCEPT ![w] =
                    IF r.res # "ok" THEN Reply(c, 500, "failed to create container from image")
                    ELSE [c EXCEPT !.pc = "start", !.respID = r.ID]]
           /\ containers' = r.cs
           /\ nextID' = IF r.res = "ok" THEN nextID + 1 ELSE nextID
    /\ UNCHANGED <<pcMain, cli, connectErr, uniqueNames, replaced>>

\* UpdateStart starting containerID, the original, in place of resp.ID
UpdateStartOriginal(w, up) ==
    /\ InUpdate(w, "start")
    /\ LET r == StartContainerByID(containers, req[w].containerID, up)
           c == Issued(req[w], r.call)
       IN  /\ req' = [req EXCEPT ![w] =
                    IF r.err # "" THEN Reply(c, 500, r.err)
                    ELSE [c EXCEPT !.pc = "remove"]]
           /\ containers' = r.cs
    /\ UNCHANGED <<pcMain, cli, connectErr, uniqueNames, replaced, nextID>>

\* UpdateStart dropping the error of the start: the workflow goes on to the
\* remove whatever the start returned
UpdateStartIgnoresError(w, up) ==
    /\ InUpdate(w, "start")
    /\ LET r == StartContainerByID(containers, req[w].respID, up)
           c == Issued(req[w], r.call)
       IN  /\ req' = [req EXCEPT ![w] = [c EXCEPT !.pc = "remove"]]
           /\ containers' = r.cs
    /\ UNCHANGED <<pcMain, cli, connectErr, uniqueNames, replaced, nextID>>

\* UpdateStart rolling back: when the start fails the replacement is removed
UpdateStartRollsBack(w, up) ==
    /\ InUpdate(w, "start")
    /\ LET r == StartContainerByID(containers, req[w].respID, up)
           d == DeleteContainerByID(r.cs, req[w].respID, TRUE)
           c == Issued(req[w], r.call)
       IN  /\ req' = [req EXCEPT ![w] =
                    IF r.err # "" THEN Reply(Issued(c, d.call), 500, r.err)
                    ELSE [c EXCEPT !.pc = "remove"]]
           /\ containers' = IF r.err # "" THEN d.cs ELSE r.cs
    /\ UNCHANGED <<pcMain, cli, connectErr, uniqueNames, replaced, nextID>>

\* phase 4, Start new: StartContainerByID(resp.ID)
\* UpdateStart preserving the run state: the replacement of an original that
\* was not running is left in state created
UpdateStartIfRunning(w, up) ==
    /\ InUpdate(w, "start")
    /\ LET wasRunning == IsRunning(req[w].containerInfo.State)
           r == StartContainerByID(containers, req[w].respID, up)
           c == Issued(req[w], r.call)
       IN  /\ req' = [req EXCEPT ![w] =
                    IF ~wasRunning THEN [req[w] EXCEPT !.pc = "remove"]
                    ELSE IF r.err # "" THEN Reply(c, 500, r.err)
                    ELSE [c EXCEPT !.pc = "remove"]]
           /\ containers' = IF wasRunning THEN r.cs ELSE containers
    /\ UNCHANGED <<pcMain, cli, connectErr, uniqueNames, replaced, nextID>>

UpdateStart(w, up) ==
    /\ InUpdate(w, "start")
    /\ LET r == StartContainerByID(containers, req[w].respID, up)
           c == Issued(req[w], r.call)
       IN  /\ req' = [req EXCEPT ![w] =
                    IF r.err # "" THEN Reply(c, 500, r.err)
                    ELSE [c EXCEPT !.pc = "remove"]]
           /\ containers' = r.cs
    /\ UNCHANGED <<pcMain, cli, connectErr, uniqueNames, replaced, nextID>>

\* phase 5, Remove old: DeleteContainerByID(containerID), then return nil
UpdateRemove(w, up) ==
    /\ InUpdate(w, "remove")
    /\ LET r == DeleteContainerByID(containers, req[w].containerID, up)
           c == Issued(req[w], r.call)
       IN  /\ req' = [req EXCEPT ![w] =
                    IF r.err # "" THEN Reply(c, 500, r.err)
                    ELSE Reply(c, 200, "")]
           /\ containers' = r.cs
           /\ replaced' = IF r.err = "" THEN replaced \cup {req[w].containerID} ELSE replaced
    /\ UNCHANGED <<pcMain, cli, connectErr, uniqueNames, nextID>>

\* the handler has returned: the goroutine ends and the worker is free again
Return(w) ==
    /\ req[w].pc = "done"
    /\ req' = [req EXCEPT ![w] = Idle]
    /\ UNCHANGED <<pcMain, cli, connectErr, uniqueNames, replaced, containers, nextID>>

\* ------------------------------------------------------------ specification
\* everything worker w can do next
Handle(w) ==
    \/ \E op \in {"stats", "start", "stop", "update", "delete"} : EmptyParam(w, op)
    \/ \E up \in BOOLEAN : GetContainers(w, up)
    \/ \E containerID \in ParamIDs, up \in BOOLEAN, decodes \in BOOLEAN, snap \in Snapshots :
            GetStats(w, containerID, up, decodes, snap)
    \/ \E containerID \in ParamIDs, up \in BOOLEAN : StartContainer(w, containerID, up)
    \/ \E containerID \in ParamIDs, up \in BOOLEAN : StopContainer(w, containerID, up)
    \/ \E containerID \in ParamIDs, up \in BOOLEAN : DeleteContainer(w, containerID, up)
    \/ \E containerID \in ParamIDs, up \in BOOLEAN : UpdateInspect(w, containerID, up)
    \/ \E up \in BOOLEAN : UpdatePull(w, up)
    \/ \E up \in BOOLEAN : UpdateCreate(w, up)
    \/ \E up \in BOOLEAN : UpdateStart(w, up)
    \/ \E up \in BOOLEAN : UpdateRemove(w, up)

Next == Main \/ \E w \in Workers : Handle(w) \/ Return(w)

Spec == Init /\ [][Next]_vars

\* at most one request is being served
OneAtATime == Cardinality({v \in Workers : req[v].pc # "idle"}) <= 1

\* the requests served one at a time: no request overlaps an update
SerialNext ==
    \/ Main
    \/ \E w \in Workers : Return(w)
    \/ \E w \in Workers, op \in {"stats", "start", "stop", "update", "delete"} :
            EmptyParam(w, op) /\ OneAtATime'
    \/ \E w \in Workers, up \in BOOLEAN : GetContainers(w, up) /\ OneAtATime'
    \/ \E w \in Workers, containerID \in ParamIDs, up \in BOOLEAN, decodes \in BOOLEAN,
          snap \in Snapshots :
            GetStats(w, containerID, up, decodes, snap) /\ OneAtATime'
    \/ \E w \in Workers, containerID \in ParamIDs, up \in BOOLEAN :
            StartContainer(w, containerID, up) /\ OneAtATime'
    \/ \E w \in Workers, containerID \in ParamIDs, up \in BOOLEAN :
            StopContainer(w, containerID, up) /\ OneAtATime'
    \/ \E w \in Workers, containerID \in ParamIDs, up \in BOOLEAN :
            DeleteContainer(w, containerID, up) /\ OneAtATime'
    \/ \E w \in Workers, containerID \in ParamIDs, up \in BOOLEAN :
            UpdateInspect(w, containerID, up) /\ OneAtATime'
    \/ \E w \in Workers, up \in BOOLEAN : UpdatePull(w, up)
    \/ \E w \in Workers, up \in BOOLEAN : UpdateCreate(w, up)
    \/ \E w \in Workers, up \in BOOLEAN : UpdateStart(w, up)
    \/ \E w \in Workers, up \in BOOLEAN : UpdateRemove(w, up)

SerialSpec == Init /\ [][SerialNext]_vars

\* ------------------------------------------------------------------- claims
Present(id) == id \in DOMAIN containers
Running(id) == Present(id) /\ containers[id].State = "running"

\* worker w is returning from UpdateContainer
UpdateReturns(w) == req[w].op = "update" /\ req[w].pc = "done"
UpdateReturnsOk(w) == UpdateReturns(w) /\ req[w].status = 200

\* worker w is inside an update whose Inspect found the original
Inspected(w) ==
    /\ req[w].op = "update"
    /\ req[w].calls # <<>>
    /\ req[w].calls[1].res = "ok"

\* no request of the call failed for a reason of the transport
NoFault(w) == \A k \in 1..Len(req[w].calls) : req[w].calls[k].res # "fault"

\* C1: when UpdateContainer(id) returns Ok, the replacement created by the
\* call is running and the container id is no longer in the runtime (requests
\* served one at a time).
C1_OkMeansReplaced ==
    \A w \in Workers :
        UpdateReturnsOk(w) =>
            /\ req[w].respID # 0
            /\ Running(req[w].respID)
            /\ ~Present(req[w].containerID)

C1_Witness ==
    \E w \in Workers :
        /\ UpdateReturnsOk(w)
        /\ Running(req[w].respID)
        /\ ~Present(req[w].containerID)
        /\ Len(req[w].calls) = 5

\* C2: during one UpdateContainer(id) call on a container that exists, and at
\* its return, the original or its replacement is present: never zero
\* containers (requests served one at a time).
C2_NeverZero ==
    \A w \in Workers :
        Inspected(w) =>
            \/ Present(req[w].containerID)
            \/ req[w].respID # 0 /\ Present(req[w].respID)

C2_Witness ==
    \E w \in Workers :
        /\ Inspected(w)
        /\ UpdateReturns(w)
        /\ req[w].error = "failed to remove container"
        /\ Present(req[w].containerID)
        /\ Present(req[w].respID)

\* C3 (as claimed): on a runtime with unique names, with no transport failure,
\* UpdateContainer of a running container returns Ok with the image pulled,
\* the replacement running under the same name and the original absent.
C3_UpdateOfRunningSucceeds ==
    \A w \in Workers :
        ( /\ UpdateReturns(w)
          /\ Inspected(w)
          /\ uniqueNames
          /\ NoFault(w)
          /\ req[w].containerInfo.State = "running" )
        => /\ req[w].status = 200
           /\ \E k \in 1..Len(req[w].calls) :
                /\ req[w].calls[k].call = "ImagePull"
                /\ req[w].calls[k].res = "ok"
           /\ Running(req[w].respID)
           /\ containers[req[w].respID].Name = req[w].containerInfo.Name
           /\ ~Present(req[w].containerID)

\* worker w is between the Inspect and the return of an update
MidUpdate(w) == req[w].op = "update" /\ req[w].pc \in {"pull", "create", "start", "remove"}

\* C4 (as claimed): two UpdateContainer workflows for the same id are never in
\* progress at the same time.
C4_UpdatesSerializedPerID ==
    \A v, w \in Workers :
        (v # w /\ MidUpdate(v) /\ MidUpdate(w)) => req[v].containerID # req[w].containerID

\* C5 (as claimed): no operation issues a call to the daemon unless
\* ConnectToDocker returned without error.
C5_NoCallWithoutConnect ==
    \A w \in Workers : req[w].calls # <<>> => connectErr = ""

\* C6 (as claimed): after a failed ConnectToDocker the process-wide handle is
\* not installed.
C6_FailedConnectLeavesNoHandle ==
    (pcMain = "serve" /\ connectErr # "") => cli = "nil"

\* C7 (as claimed): in every state of an update that found the original,
\* exactly one of the original and the replacement is present.
C7_AtomicHandOff ==
    \A w \in Workers :
        Inspected(w) =>
            (Present(req[w].containerID) <=> ~(req[w].respID # 0 /\ Present(req[w].respID)))

\* the ids of a sequence of summaries
ListedIDs(list) == {list[k].ID : k \in 1..Len(list)}

\* C8 (as claimed): ListContainers returns every container the daemon knows,
\* whatever its state.
C8_ListReturnsAll ==
    \A w \in Workers :
        (req[w].op = "list" /\ req[w].pc = "done" /\ req[w].status = 200)
        => ListedIDs(req[w].containerList) = DOMAIN containers

\* C9 (as claimed): a snapshot without eth0 makes GetStats answer an error,
\* never a success.
C9_NoEth0IsAnError ==
    \A w \in Workers :
        (req[w].op = "stats" /\ req[w].pc = "done" /\ req[w].status = 200)
        => "eth0" \in DOMAIN req[w].rawStats.Networks

\* C10 (as claimed): every ContainerStop request carries a grace period of 10,
\* the daemon's unit being seconds.
C10_StopGraceIsTenSeconds ==
    \A w \in Workers :
        \A k \in 1..Len(req[w].calls) :
            req[w].calls[k].call = "ContainerStop" => req[w].calls[k].timeout = Big(0, 10)

\* what makes a container survive a recreate: its configuration and its name
Settings(c) ==
    [Name |-> c.Name, Image |-> c.Image, HostConfig |-> c.HostConfig, Networks |-> c.Networks]

\* the k-th request worker w has issued is `name`
IssuedAt(w, k, name) == Len(req[w].calls) >= k /\ req[w].calls[k].call = name

\* C11: the container an update creates carries the image configuration, host
\* configuration, network attachments and name that the Inspect of the same
\* call captured from the original, and the image pulled is the one recorded
\* at Inspect.
C11_ReplacementCarriesInspected ==
    \A w \in Workers :
        (req[w].op = "update" /\ Inspected(w)) =>
            /\ Present(req[w].containerID) =>
                    Settings(containers[req[w].containerID]) = Settings(req[w].containerInfo)
            /\ (req[w].respID # 0 /\ Present(req[w].respID)) =>
                    Settings(containers[req[w].respID]) = Settings(req[w].containerInfo)
            /\ Len(req[w].calls) >= 2 =>
                    /\ req[w].calls[2].call = "ImagePull"
                    /\ req[w].calls[2].target = req[w].containerInfo.Image
                    /\ req[w].containerInfo.Image # 0

C11_Witness ==
    \E w \in Workers :
        /\ req[w].op = "update"
        /\ IssuedAt(w, 3, "ContainerCreate")
        /\ req[w].respID # 0
        /\ Present(req[w].respID)
        /\ Present(req[w].containerID)
        /\ Settings(containers[req[w].respID]) = Settings(containers[req[w].containerID])

\* the errors of the four phases before Remove old
EarlyErrors ==
    {"failed to get container info", "failed to pull image",
     "failed to create container from image", "failed to start container"}

InspectOrPullStep(w) ==
    /\ req'[w] # req[w]
    /\ req'[w].op = "update"
    /\ Len(req'[w].calls) \in {1, 2}

StartNewFailed(w) ==
    /\ UpdateReturns(w)
    /\ IssuedAt(w, 4, "ContainerStart")
    /\ req[w].calls[4].res # "ok"

\* C14: when Start new fails the update returns an error, and the original and
\* the created, not started replacement are both still present: the call has
\* removed nothing and has not touched the original (requests served one at a
\* time).
C14_StartFailureLeavesBoth ==
    \A w \in Workers :
        StartNewFailed(w) =>
            /\ req[w].status = 500
            /\ req[w].error = "failed to start container"
            /\ Len(req[w].calls) = 4
            /\ Present(req[w].containerID)
            /\ containers[req[w].containerID].State = req[w].containerInfo.State
            /\ Present(req[w].respID)
            /\ containers[req[w].respID].State = "created"

C14_Witness ==
    \E w \in Workers :
        /\ StartNewFailed(w)
        /\ Present(req[w].containerID)
        /\ Present(req[w].respID)
        /\ req[w].respID # req[w].containerID

\* the daemon requests of the five phases, in the order of UpdateContainerByID
Phases ==
    <<"ContainerInspect", "ImagePull", "ContainerCreate", "ContainerStart", "ContainerRemove">>

\* the phase a worker inside an update is about to run
NextPhase(pc) ==
    CASE pc = "pull" -> 2
      [] pc = "create" -> 3
      [] pc = "start" -> 4
      [] pc = "remove" -> 5

PhaseError ==
    <<"failed to get container info", "failed to pull image",
      "failed to create container from image", "failed to start container",
      "failed to remove container">>

C17_HandleNeverRewritten ==
    [][connectErr = "" => (cli = "client" /\ cli' = cli)]_vars

C17_Witness ==
    /\ connectErr = ""
    /\ cli = "client"
    /\ \E v, w \in Workers :
         /\ v # w
         /\ MidUpdate(v)
         /\ req[w].pc = "done"
         /\ req[w].status = 500
         /\ req[w].calls # <<>>

\* worker w is returning from an update whose Create failed
CreateFailed(w) ==
    /\ UpdateReturns(w)
    /\ req[w].calls # <<>>
    /\ req[w].calls[Len(req[w].calls)].call = "ContainerCreate"
    /\ req[w].calls[Len(req[w].calls)].res # "ok"

\* C18: when Create fails the update returns an error having issued neither a
\* start nor a remove, and the original is still present in the lifecycle
\* state it had at Inspect (requests served one at a time).
C18_CreateFailureKeepsOriginal ==
    \A w \in Workers :
        CreateFailed(w) =>
            /\ req[w].status = 500
            /\ req[w].error = "failed to create container from image"
            /\ Len(req[w].calls) = 3
            /\ \A k \in 1..Len(req[w].calls) :
                 req[w].calls[k].call \notin {"ContainerStart", "ContainerRemove", "ContainerStop"}
            /\ req[w].respID = 0
            /\ Present(req[w].containerID)
            /\ containers[req[w].containerID].State = req[w].containerInfo.State

C18_Witness ==
    \E w \in Workers :
        /\ CreateFailed(w)
        /\ uniqueNames
        /\ req[w].calls[3].res = "conflict"
        /\ Running(req[w].containerID)

\* the operations of the API that act on one container
ActsOnContainer == {"start", "stop", "update", "delete"}

\* in this step worker w takes a request that names an identifier whose
\* update has already returned Ok
CalledOnReplaced(w) ==
    /\ req[w].pc = "idle"
    /\ req'[w].pc # "idle"
    /\ req'[w].op \in ActsOnContainer
    /\ req'[w].containerID \in replaced

\* C19: once UpdateContainer(id) has returned Ok, id designates no container:
\* a later StartContainer, StopContainer, UpdateContainer or DeleteContainer
\* on id returns an error and leaves the runtime's container set unchanged.
C19_ReplacedIdIsDead ==
    [][/\ \A id \in replaced : id \notin DOMAIN containers
       /\ \A w \in Workers :
            CalledOnReplaced(w) =>
                /\ req'[w].pc = "done"
                /\ req'[w].status = 500
                /\ containers' = containers]_vars

C19_Witness ==
    \E w \in Workers :
        /\ req[w].pc = "done"
        /\ req[w].op = "delete"
        /\ req[w].containerID \in replaced
        /\ req[w].status = 500
        /\ req[w].calls # <<>>
        /\ req[w].calls[1].res = "notfound"
        /\ \E id \in DOMAIN containers : id > req[w].containerID /\ containers[id].State = "running"

\* worker w is returning Ok from an update whose original was not running
\* when it was inspected
UpdatedStopped(w) ==
    /\ UpdateReturnsOk(w)
    /\ req[w].containerInfo.State \in {"created", "exited"}

\* C20: the replacement is started whatever the lifecycle state of the
\* original: an update of a created or exited container whose phases all
\* succeed ends with a running container under that name (requests served one
\* at a time).
C20_ReplacementAlwaysStarted ==
    \A w \in Workers :
        UpdatedStopped(w) =>
            /\ IssuedAt(w, 4, "ContainerStart")
            /\ req[w].calls[4].target = req[w].respID
            /\ Running(req[w].respID)
            /\ containers[req[w].respID].Name = req[w].containerInfo.Name
            /\ containers[req[w].respID].State # req[w].containerInfo.State

C20_Witness ==
    \E w \in Workers :
        /\ UpdatedStopped(w)
        /\ req[w].containerInfo.State = "exited"
        /\ Running(req[w].respID)
        /\ ~Present(req[w].containerID)

====
